---- MODULE Spec2Model ----
(***************************************************************************)
(* Smart Pricing AI user interface: the invoice builder (form state,       *)
(* memoised totals, PDF export, pricing request), the CSV data import      *)
(* (header validation, row normalisation, upload, retrain), the shipping   *)
(* estimator and the price recommendations with their competitor offers.   *)
(*                                                                         *)
(* JavaScript values are modelled with their run-time type, because the    *)
(* form library stores what an <input> holds (a string) while the default  *)
(* values and the schema's output are numbers, and `+` and `*` treat the   *)
(* two differently.                                                        *)
(***************************************************************************)
EXTENDS Integers, Sequences, FiniteSets, TLC

VARIABLES
    formValues,      \* react-hook-form's current field values (what watch() returns)
    totals,          \* the value useMemo holds for `totals`
    pricingPending,  \* pricingMutation.isPending
    pricingResults,  \* useState pricingResults
    edits,           \* number of user edits made to the invoice form so far
    out,             \* what the last step emitted (PDF document, request, alert)
    recomputed,      \* TotalsSpec: the totals callback has been applied to formValues
    headers,         \* HeadersSpec: the header row given to validateHeaders
    validation,      \* HeadersSpec: what validateHeaders returned, if applied
    fileName,        \* DataImport: useState fileName
    parseResult,     \* DataImport: useState parseResult
    error,           \* DataImport: useState error
    isSubmitting,    \* DataImport: useState isSubmitting
    uploadSucceeded, \* DataImport: useState uploadSucceeded
    isRetraining,    \* DataImport: useState isRetraining
    retrainMessage,  \* DataImport: useState retrainMessage
    parsing,         \* DataImport: the files Papa.parse is still reading
    parsedFile,      \* DataImport: the file whose complete callback set parseResult
    selections,      \* DataImport: number of files selected or dropped so far
    sent,            \* DataImport: the request the last step sent, if any
    activeTab,       \* App: useState activeTab, the one component that is mounted
    inFlight,        \* per operation, the requests sent and not yet answered
    shipValues,      \* ShippingEstimator: the form's current field values
    estimate,        \* ShippingEstimator: useState estimate
    isLoading,       \* ShippingEstimator: useState isLoading
    recommendationsLoading, \* PricingRecommendations: isLoading of the recommendations query
    recommendations, \* PricingRecommendations: data of the recommendations query
    expandedSku,     \* PricingRecommendations: useState expandedSku
    offersCache,     \* PricingRecommendations: useState offersCache
    loadingOffers,   \* PricingRecommendations: useState loadingOffers
    competitorRequests, \* PricingRecommendations: per sku, competitor requests not yet answered
    newSku,          \* PricingRecommendations: useState newSku
    newCurrent,      \* PricingRecommendations: useState newCurrent
    adding,          \* PricingRecommendations: useState adding
    addError,        \* PricingRecommendations: useState addError
    toggles          \* PricingRecommendations: number of Show/Hide clicks so far

invoiceVars == <<formValues, totals, pricingPending, pricingResults, edits, out, recomputed>>
headersVars == <<headers, validation>>
importVars == <<fileName, parseResult, error, isSubmitting, uploadSucceeded, isRetraining,
                retrainMessage, parsing, parsedFile, selections, sent>>
shippingVars == <<shipValues, estimate, isLoading>>
recsVars == <<recommendationsLoading, recommendations, expandedSku, offersCache, loadingOffers,
              competitorRequests, newSku, newCurrent, adding, addError, toggles>>
vars == <<invoiceVars, headersVars, importVars, shippingVars, recsVars, activeTab, inFlight>>

\* Number of user edits of the invoice form explored from the mounted form.
MaxEdits == 3

(***************************************************************************)
(* JavaScript values: numbers (integers here), NaN, and strings, a string  *)
(* being the sequence of its characters.                                   *)
(***************************************************************************)
Num(n) == [t |-> "number", n |-> n, s |-> <<>>]
NaN == [t |-> "NaN", n |-> 0, s |-> <<>>]
Str(s) == [t |-> "string", n |-> 0, s |-> s]

Digits == <<"0", "1", "2", "3", "4", "5", "6", "7", "8", "9">>
IsDigit(c) == \E d \in 1..10 : Digits[d] = c
DigitVal(c) == (CHOOSE d \in 1..10 : Digits[d] = c) - 1
AllDigits(s) == \A i \in 1..Len(s) : IsDigit(s[i])

RECURSIVE StrToNat(_)
StrToNat(s) ==
    IF s = <<>> THEN 0
    ELSE StrToNat(SubSeq(s, 1, Len(s) - 1)) * 10 + DigitVal(s[Len(s)])

RECURSIVE NatToStr(_)
NatToStr(n) ==
    IF n < 10 THEN <<Digits[n + 1]>>
    ELSE NatToStr(n \div 10) \o <<Digits[(n % 10) + 1]>>

\* Number(v): the empty string is 0, a decimal integer literal is its value,
\* any other string is NaN.
ToNumber(v) ==
    IF v.t # "string" THEN v
    ELSE IF v.s = <<>> THEN Num(0)
    ELSE IF AllDigits(v.s) THEN Num(StrToNat(v.s))
    ELSE IF v.s[1] = "-" /\ Len(v.s) > 1 /\ AllDigits(Tail(v.s))
         THEN Num(0 - StrToNat(Tail(v.s)))
    ELSE NaN

\* String(v)
ToStringJS(v) ==
    IF v.t = "string" THEN v.s
    ELSE IF v.t = "NaN" THEN <<"N", "a", "N">>
    ELSE IF v.n < 0 THEN <<"-">> \o NatToStr(0 - v.n)
    ELSE NatToStr(v.n)

\* a * b: both operands are converted to numbers.
JsMul(a, b) ==
    LET x == ToNumber(a)
        y == ToNumber(b)
    IN  IF x.t = "NaN" \/ y.t = "NaN" THEN NaN ELSE Num(x.n * y.n)

\* a + b: concatenation as soon as one operand is a string, addition otherwise.
JsAdd(a, b) ==
    IF a.t = "string" \/ b.t = "string" THEN Str(ToStringJS(a) \o ToStringJS(b))
    ELSE IF a.t = "NaN" \/ b.t = "NaN" THEN NaN
    ELSE Num(a.n + b.n)

(***************************************************************************)
(* Requests to the backend.  A fetch is answered at most once, by a        *)
(* response or by a rejection; nothing in the components cancels it or     *)
(* gives it a timeout.                                                     *)
(***************************************************************************)
Operations == {"shipping", "pricing", "upload", "retrain", "add", "recommendations"}

\* fetch(...): one more request of the operation is on its way.
Sent(op) == [inFlight EXCEPT ![op] = @ + 1]

\* The awaited fetch resolved or rejected: the request is over.
Answered(op) == [inFlight EXCEPT ![op] = @ - 1]

NoneInFlight == [op \in Operations |-> 0]

(***************************************************************************)
(* The invoice form: schema, default values, totals.                       *)
(***************************************************************************)
FeeTypes == {"tariff", "service", "handling", "promotion", "other"}
Segments == {"academic", "biotech", "pharma", "distributor", "other"}

\* z.coerce.number(): Number(input), rejected when the result is NaN.
coerceNumber(v) == ToNumber(v)

invoiceItemSchema(item) ==
    /\ item.sku # ""
    /\ item.description # ""
    /\ coerceNumber(item.quantity).t = "number"
    /\ coerceNumber(item.quantity).n >= 1
    /\ coerceNumber(item.unitPrice).t = "number"
    /\ coerceNumber(item.unitPrice).n >= 0

feeSchema(f) ==
    /\ f.type \in FeeTypes
    /\ f.label # ""
    /\ coerceNumber(f.amount).t = "number"

\* formSchema with items declared z.array(invoiceItemSchema), without .min(1).
formSchemaNoMin(values) ==
    /\ values.invoiceNumber # ""
    /\ values.supplier.country # ""
    /\ values.buyer.segment \in Segments
    /\ values.buyer.country # ""
    /\ \A i \in 1..Len(values.items) : invoiceItemSchema(values.items[i])
    /\ \A i \in 1..Len(values.fees) : feeSchema(values.fees[i])

formSchema(values) ==
    /\ values.invoiceNumber # ""
    /\ values.supplier.country # ""
    /\ values.buyer.segment \in Segments
    /\ values.buyer.country # ""
    /\ Len(values.items) >= 1
    /\ \A i \in 1..Len(values.items) : invoiceItemSchema(values.items[i])
    /\ \A i \in 1..Len(values.fees) : feeSchema(values.fees[i])

\* The schema's output for values it accepts: number fields coerced.
parsedValues(values) ==
    [values EXCEPT
        !.items = [i \in 1..Len(values.items) |->
            [values.items[i] EXCEPT !.quantity = coerceNumber(@),
                                    !.unitPrice = coerceNumber(@)]],
        !.fees = [i \in 1..Len(values.fees) |->
            [values.fees[i] EXCEPT !.amount = coerceNumber(@)]]]

defaultValues ==
    [invoiceNumber |-> "INV-1001",
     supplier |-> [country |-> "US"],
     buyer |-> [segment |-> "biotech", country |-> "US"],
     items |-> << [sku |-> "AB-HEPES-1KG",
                   description |-> "HEPES Buffer 1kg, molecular biology grade",
                   quantity |-> Num(2),
                   unitPrice |-> Num(185)] >>,
     fees |-> << [type |-> "service", label |-> "Cold chain packaging", amount |-> Num(25)],
                 [type |-> "handling", label |-> "Hazmat handling", amount |-> Num(15)] >>]

newItem == [sku |-> "", description |-> "", quantity |-> Num(1), unitPrice |-> Num(0)]
newFee == [type |-> "service", label |-> "", amount |-> Num(0)]

\* The items reducer written as sum + item.unitPrice, the quantity dropped.
RECURSIVE reduceItemsNoQuantity(_, _)
reduceItemsNoQuantity(sum, its) ==
    IF its = <<>> THEN sum
    ELSE reduceItemsNoQuantity(JsAdd(sum, ToNumber(Head(its).unitPrice)), Tail(its))

\* items.reduce((sum, item) => sum + item.quantity * item.unitPrice, 0)
RECURSIVE reduceItems(_, _)
reduceItems(sum, its) ==
    IF its = <<>> THEN sum
    ELSE reduceItems(JsAdd(sum, JsMul(Head(its).quantity, Head(its).unitPrice)), Tail(its))

\* fees.reduce((sum, f) => sum + f.amount, 0)
RECURSIVE reduceFees(_, _)
reduceFees(sum, fs) ==
    IF fs = <<>> THEN sum
    ELSE reduceFees(JsAdd(sum, Head(fs).amount), Tail(fs))

itemsSubtotal(values) == reduceItems(Num(0), values.items)
feesTotal(values) == reduceFees(Num(0), values.fees)
grandTotal(values) == JsAdd(itemsSubtotal(values), feesTotal(values))

\* The callback given to useMemo.
computeTotals(values) ==
    [itemsSubtotal |-> itemsSubtotal(values),
     feesTotal |-> feesTotal(values),
     grandTotal |-> grandTotal(values)]

\* The dependency list is [watch]; useForm returns the same watch function on
\* every render, so the dependency never changes after the first render.
watchChanged == FALSE

\* useMemo(callback, [watch]) on a re-render: the held value unless a dependency changed.
useMemoTotals(held, values) ==
    IF watchChanged THEN computeTotals(values) ELSE held

\* formatCurrency(value): Intl.NumberFormat.format converts its argument to a
\* number and renders it; the rendering of a number is kept as that number.
formatCurrency(v) == ToNumber(v)

(***************************************************************************)
(* What the user can type or select.  A number <input> hands the form a    *)
(* string: the empty string when the field is empty or does not hold a     *)
(* number, the literal otherwise.                                          *)
(***************************************************************************)
SkuInputs == {"", "AB-HEPES-1KG"}
DescriptionInputs == {"", "HEPES Buffer 1kg, molecular biology grade"}
QuantityInputs == {<<>>, <<"0">>, <<"3">>}
UnitPriceInputs == {<<>>, <<"-", "1">>, <<"5">>}
LabelInputs == {"", "Promo"}
FeeTypeInputs == {"promotion"}
AmountInputs == {<<>>, <<"-", "1", "0">>, <<"2", "5">>}
InvoiceNumberInputs == {""}
CountryInputs == {"", "DE"}
SegmentInputs == {"academic"}

\* InvoicePricingResponse bodies the pricing endpoint may answer with.
PricingResponses ==
    { [recommendations |-> <<>>, provider |-> "fallback"],
      [recommendations |-> << [sku |-> "AB-HEPES-1KG", recommended_price |-> 199] >>,
       provider |-> "model"] }

NoOut == [kind |-> "none"]

RemoveAt(seq, i) == SubSeq(seq, 1, i - 1) \o SubSeq(seq, i + 1, Len(seq))

\* A field change: the form stores the new values and the component
\* re-renders, which evaluates useMemo again.
Edit(newValues) ==
    /\ edits < MaxEdits
    /\ newValues # formValues
    /\ formValues' = newValues
    /\ totals' = useMemoTotals(totals, newValues)
    /\ edits' = edits + 1
    /\ out' = NoOut
    /\ UNCHANGED <<pricingPending, pricingResults, recomputed, headersVars, importVars, shippingVars, recsVars, activeTab, inFlight>>

AppendItem == Edit([formValues EXCEPT !.items = Append(@, newItem)])

RemoveItem ==
    \E i \in 1..Len(formValues.items) :
        Edit([formValues EXCEPT !.items = RemoveAt(@, i)])

TypeItemSku ==
    \E i \in 1..Len(formValues.items), s \in SkuInputs :
        Edit([formValues EXCEPT !.items[i].sku = s])

TypeItemDescription ==
    \E i \in 1..Len(formValues.items), s \in DescriptionInputs :
        Edit([formValues EXCEPT !.items[i].description = s])

TypeItemQuantity ==
    \E i \in 1..Len(formValues.items), s \in QuantityInputs :
        Edit([formValues EXCEPT !.items[i].quantity = Str(s)])

TypeItemUnitPrice ==
    \E i \in 1..Len(formValues.items), s \in UnitPriceInputs :
        Edit([formValues EXCEPT !.items[i].unitPrice = Str(s)])

AppendFee == Edit([formValues EXCEPT !.fees = Append(@, newFee)])

RemoveFee ==
    \E i \in 1..Len(formValues.fees) :
        Edit([formValues EXCEPT !.fees = RemoveAt(@, i)])

SelectFeeType ==
    \E i \in 1..Len(formValues.fees), s \in FeeTypeInputs :
        Edit([formValues EXCEPT !.fees[i].type = s])

TypeFeeLabel ==
    \E i \in 1..Len(formValues.fees), s \in LabelInputs :
        Edit([formValues EXCEPT !.fees[i].label = s])

TypeFeeAmount ==
    \E i \in 1..Len(formValues.fees), s \in AmountInputs :
        Edit([formValues EXCEPT !.fees[i].amount = Str(s)])

TypeInvoiceNumber ==
    \E s \in InvoiceNumberInputs : Edit([formValues EXCEPT !.invoiceNumber = s])

TypeSupplierCountry ==
    \E s \in CountryInputs : Edit([formValues EXCEPT !.supplier.country = s])

TypeBuyerCountry ==
    \E s \in CountryInputs : Edit([formValues EXCEPT !.buyer.country = s])

SelectBuyerSegment ==
    \E s \in SegmentInputs : Edit([formValues EXCEPT !.buyer.segment = s])

\* The document onGeneratePdf builds from the values it is given and from
\* the memoised totals of the component.
onGeneratePdf(values, held) ==
    [kind |-> "pdf",
     fileName |-> values.invoiceNumber,
     items |-> [i \in 1..Len(values.items) |->
        [sku |-> values.items[i].sku,
         description |-> values.items[i].description,
         quantity |-> ToStringJS(values.items[i].quantity),
         unitPrice |-> formatCurrency(values.items[i].unitPrice),
         lineTotal |-> formatCurrency(JsMul(values.items[i].unitPrice,
                                            values.items[i].quantity))]],
     fees |-> [i \in 1..Len(values.fees) |->
        [type |-> values.fees[i].type,
         label |-> values.fees[i].label,
         amount |-> formatCurrency(values.fees[i].amount)]],
     subtotal |-> formatCurrency(held.itemsSubtotal),
     feesTotal |-> formatCurrency(held.feesTotal),
     total |-> formatCurrency(held.grandTotal)]

\* Download PDF: handleSubmit runs the schema on the current values and calls
\* onGeneratePdf with the schema's output only when there is no error.
SubmitPdf ==
    /\ out' = IF formSchema(formValues)
              THEN onGeneratePdf(parsedValues(formValues), totals)
              ELSE [kind |-> "invalid"]
    /\ UNCHANGED <<formValues, totals, pricingPending, pricingResults, edits, recomputed, headersVars, importVars, shippingVars, recsVars, activeTab, inFlight>>

\* The body built from the first line item only.
requestDataFirstItem(data) ==
    [items |-> [i \in 1..(IF Len(data.items) > 0 THEN 1 ELSE 0) |->
        [sku |-> data.items[i].sku,
         description |-> data.items[i].description,
         quantity |-> data.items[i].quantity,
         unitPrice |-> data.items[i].unitPrice]],
     buyer_segment |-> data.buyer.segment,
     buyer_country |-> data.buyer.country,
     supplier_country |-> data.supplier.country]

\* The body the pricing mutation posts.
requestData(data) ==
    [items |-> [i \in 1..Len(data.items) |->
        [sku |-> data.items[i].sku,
         description |-> data.items[i].description,
         quantity |-> data.items[i].quantity,
         unitPrice |-> data.items[i].unitPrice]],
     buyer_segment |-> data.buyer.segment,
     buyer_country |-> data.buyer.country,
     supplier_country |-> data.supplier.country]

\* The mutation function up to its fetch: it throws, which onError turns
\* into an alert, or posts the request.
mutationFn(data) ==
    IF Len(data.items) = 0
    THEN [kind |-> "alert", message |-> "Pricing generation failed"]
    ELSE IF data.buyer.segment = "" \/ data.buyer.country = "" \/ data.supplier.country = ""
    THEN [kind |-> "alert", message |-> "Pricing generation failed"]
    ELSE [kind |-> "pricingRequest", body |-> requestData(data)]

\* onGeneratePricing(data): what it emits, an alert or the mutation's request.
onGeneratePricing(data) ==
    IF Len(data.items) = 0
    THEN [kind |-> "alert", message |-> "Please add at least one item"]
    ELSE IF data.buyer.segment = "" \/ data.buyer.country = "" \/ data.supplier.country = ""
    THEN [kind |-> "alert", message |-> "Please fill in all buyer and supplier information"]
    ELSE mutationFn(data)

\* disabled={pricingMutation.isPending} on the Generate Pricing button.
pricingDisabled == pricingPending

\* Generate Pricing: onGeneratePricing(watch()); the button is disabled while
\* the mutation is pending.
GeneratePricing ==
    /\ ~pricingDisabled
    /\ out' = onGeneratePricing(formValues)
    /\ pricingPending' = (out'.kind = "pricingRequest")
    /\ inFlight' = IF out'.kind = "pricingRequest" THEN Sent("pricing") ELSE inFlight
    /\ UNCHANGED <<formValues, totals, pricingResults, edits, recomputed, headersVars, importVars, shippingVars, recsVars, activeTab>>

\* The endpoint answers 2xx: onSuccess stores the response.
PricingSuccess ==
    /\ inFlight["pricing"] > 0
    /\ inFlight' = Answered("pricing")
    /\ \E r \in PricingResponses : pricingResults' = <<r>>
    /\ pricingPending' = FALSE
    /\ out' = NoOut
    /\ UNCHANGED <<formValues, totals, edits, recomputed, headersVars, importVars, shippingVars, recsVars, activeTab>>

\* The mutation configured with a retry: the failed request is sent again
\* and the mutation stays pending.
PricingErrorRetry ==
    /\ inFlight["pricing"] > 0
    /\ inFlight' = inFlight
    /\ pricingPending' = TRUE
    /\ out' = [kind |-> "alert", message |-> "Pricing generation failed"]
    /\ UNCHANGED <<formValues, totals, pricingResults, edits, recomputed, headersVars, importVars, shippingVars, recsVars, activeTab>>

\* The endpoint answers non-2xx or fetch rejects: onError alerts.
PricingError ==
    /\ inFlight["pricing"] > 0
    /\ inFlight' = Answered("pricing")
    /\ pricingPending' = FALSE
    /\ out' = [kind |-> "alert", message |-> "Pricing generation failed"]
    /\ UNCHANGED <<formValues, totals, pricingResults, edits, recomputed, headersVars, importVars, shippingVars, recsVars, activeTab>>

(***************************************************************************)
(* Data import.  A string is the sequence of its characters; a column name *)
(* counts as one character and " " is a blank.                             *)
(***************************************************************************)
RequiredNames ==
    <<"order_id", "date_ordered", "product_type", "customer_type", "price",
      "competitor_price", "promotion_flag", "marketing_spend", "economic_index",
      "seasonality_index", "trend_index", "day_of_week", "month", "price_gap", "quantity">>

REQUIRED_HEADERS == [i \in DOMAIN RequiredNames |-> <<RequiredNames[i]>>]

Undefined == [t |-> "undefined", n |-> 0, s |-> <<>>]

RECURSIVE trimStart(_)
trimStart(s) == IF s # <<>> /\ Head(s) = " " THEN trimStart(Tail(s)) ELSE s

RECURSIVE trimEnd(_)
trimEnd(s) ==
    IF s # <<>> /\ s[Len(s)] = " " THEN trimEnd(SubSeq(s, 1, Len(s) - 1)) ELSE s

\* String.prototype.trim
trim(s) == trimEnd(trimStart(s))

\* Array.prototype.includes
includes(arr, x) == \E i \in 1..Len(arr) : arr[i] = x

\* validateHeaders compared on the headers as given, without h.trim().
validateHeadersUntrimmed(hs) ==
    [missing |-> SelectSeq(REQUIRED_HEADERS, LAMBDA h : ~includes(hs, h)),
     extra |-> SelectSeq(hs, LAMBDA h : ~includes(REQUIRED_HEADERS, h))]

validateHeaders(hs) ==
    LET normalized == [i \in 1..Len(hs) |-> trim(hs[i])]
    IN  [missing |-> SelectSeq(REQUIRED_HEADERS, LAMBDA h : ~includes(normalized, h)),
         extra |-> SelectSeq(normalized, LAMBDA h : ~includes(REQUIRED_HEADERS, h))]

\* Header rows: the required headers in file order or reversed, some dropped,
\* some padded with blanks, followed by further columns.
Reverse(seq) == [i \in 1..Len(seq) |-> seq[Len(seq) + 1 - i]]

Layout(drop, pad, more, rev) ==
    LET base == IF rev THEN Reverse(RequiredNames) ELSE RequiredNames
        kept == SelectSeq(base, LAMBDA h : h \notin drop)
    IN  [i \in 1..Len(kept) |->
            IF kept[i] \in pad THEN <<" ", kept[i], " ">> ELSE <<kept[i]>>] \o more

\* Largest number of data rows of a file, beyond those the preview shows.
MaxRows == 2
\* The number of rows the preview is cut to: slice(0, 10).
PreviewLimit == 10
\* Number of files selected or dropped in one session.
MaxSelections == 2

FileLayouts ==
    [full |-> Layout({}, {}, <<>>, FALSE),
     reordered |-> Layout({}, {}, << <<"notes">> >>, TRUE),
     noQuantity |-> Layout({"quantity"}, {}, <<>>, FALSE),
     noPrice |-> Layout({"price", "quantity"}, {}, << <<"notes">> >>, FALSE),
     padded |-> Layout({}, {"price"}, <<>>, FALSE),
     headerOnly |-> Layout({}, {}, <<>>, FALSE),
     long |-> Layout({}, {}, <<>>, FALSE),
     foreign |-> << <<"notes">>, <<"sku">> >>]

FileRows ==
    [full |-> MaxRows, reordered |-> MaxRows, noQuantity |-> MaxRows, noPrice |-> 1,
     padded |-> 1, headerOnly |-> 0, long |-> PreviewLimit + MaxRows, foreign |-> MaxRows]

\* The files the user may select, each known by its name: a header row and a
\* number of data rows.
Files == DOMAIN FileLayouts
fileHeaders(file) == FileLayouts[file]
fileRows(file) == FileRows[file]

\* The text of the cell in data row i, column c of a file.
CellText(i, c) == Str(<<i, c>>)

\* Papa.parse(file, {header: true}): meta.fields is the header row as written,
\* data holds one object per data row, keyed by the header cells; a row with
\* fewer cells than headers (every second row here, two cells short) lacks the
\* last keys.
parseFields(file) == fileHeaders(file)

parseData(file) ==
    LET hs == fileHeaders(file)
    IN  [i \in 1..fileRows(file) |->
            LET cols == IF i % 2 = 0 THEN Len(hs) - 2 ELSE Len(hs)
            IN  [h \in { hs[c] : c \in 1..cols } |->
                    CellText(i, CHOOSE c \in 1..cols : hs[c] = h)]]

\* r?.[key]
lookup(r, key) == IF key \in DOMAIN r THEN r[key] ELSE Undefined

\* x ?? ''
orEmpty(x) == IF x.t = "undefined" THEN Str(<<>>) ELSE x

\* The row built with row[key] = r?.[key], the `?? ''` left out.
normalizeRowNoDefault(r) ==
    [key \in { REQUIRED_HEADERS[k] : k \in DOMAIN REQUIRED_HEADERS } |-> lookup(r, key)]

\* REQUIRED_HEADERS.forEach(key => row[key] = (r?.[key] ?? '').toString())
normalizeRow(r) ==
    [key \in { REQUIRED_HEADERS[k] : k \in DOMAIN REQUIRED_HEADERS } |->
        orEmpty(lookup(r, key))]

\* The complete callback that goes on to build the rows whatever is missing.
completeNoReject(file) ==
    LET v == validateHeaders(parseFields(file))
    IN  [rows |-> [i \in 1..fileRows(file) |-> normalizeRow(parseData(file)[i])],
         missingHeaders |-> v.missing,
         extraHeaders |-> v.extra]

\* The complete callback of Papa.parse: the parse result it stores.
complete(file) ==
    LET v == validateHeaders(parseFields(file))
    IN  IF Len(v.missing) > 0
        THEN [rows |-> <<>>, missingHeaders |-> v.missing, extraHeaders |-> v.extra]
        ELSE [rows |-> [i \in 1..fileRows(file) |-> normalizeRow(parseData(file)[i])],
              missingHeaders |-> v.missing,
              extraHeaders |-> v.extra]

\* Array.prototype.slice(start, end) with 0 <= start and 0 <= end.
slice(arr, start, end) ==
    SubSeq(arr, start + 1, IF end < Len(arr) THEN end ELSE Len(arr))

\* The preview showing every row of the parse result.
previewRowsUncut == IF parseResult = <<>> THEN <<>> ELSE parseResult[1].rows

\* useMemo(() => parseResult?.rows.slice(0, 10) ?? [], [parseResult])
previewRows ==
    IF parseResult = <<>> THEN <<>> ELSE slice(parseResult[1].rows, 0, PreviewLimit)

NoRequest == [kind |-> "none"]

\* onSelectFile / onDrop: handleFile(file) up to the start of the parse.
handleFile ==
    /\ selections < MaxSelections
    /\ \E file \in Files :
        /\ error' = <<>>
        /\ fileName' = <<file>>
        /\ parsing' = parsing \cup {file}
    /\ selections' = selections + 1
    /\ sent' = NoRequest
    /\ UNCHANGED <<parseResult, isSubmitting, uploadSucceeded, isRetraining,
                   retrainMessage, parsedFile, invoiceVars, headersVars, shippingVars, recsVars, activeTab, inFlight>>

\* Papa.parse finished reading a file: the complete callback.
parseComplete ==
    /\ \E file \in parsing :
        /\ parseResult' = <<complete(file)>>
        /\ parsedFile' = <<file>>
        /\ parsing' = parsing \ {file}
    /\ sent' = NoRequest
    /\ UNCHANGED <<fileName, error, isSubmitting, uploadSucceeded, isRetraining,
                   retrainMessage, selections, invoiceVars, headersVars, shippingVars, recsVars, activeTab, inFlight>>

\* Papa.parse could not read a file: the error callback.
parseError ==
    /\ \E file \in parsing :
        /\ error' = <<"read error">>
        /\ parsing' = parsing \ {file}
    /\ sent' = NoRequest
    /\ UNCHANGED <<fileName, parseResult, isSubmitting, uploadSucceeded, isRetraining,
                   retrainMessage, parsedFile, selections, invoiceVars, headersVars, shippingVars, recsVars, activeTab, inFlight>>

\* The upload button disabled only for want of rows.
uploadDisabledNoRows == Len(parseResult[1].rows) = 0

\* disabled={isSubmitting || (parseResult.rows.length === 0)} on the upload
\* button, which is rendered when there is a parse result.
uploadDisabled == isSubmitting \/ Len(parseResult[1].rows) = 0

\* disabled={isRetraining} on the retrain button.
retrainDisabled == isRetraining

\* Upload to Pricing Service: onSubmitToBackend up to the fetch.
onSubmitToBackend ==
    /\ parseResult # <<>>
    /\ ~uploadDisabled
    /\ Len(parseResult[1].rows) > 0
    /\ isSubmitting' = TRUE
    /\ uploadSucceeded' = FALSE
    /\ sent' = [kind |-> "upload", rows |-> parseResult[1].rows]
    /\ inFlight' = Sent("upload")
    /\ UNCHANGED <<fileName, parseResult, error, isRetraining, retrainMessage, parsing,
                   parsedFile, selections, invoiceVars, headersVars, shippingVars, recsVars, activeTab>>

\* An answer handler that also drops the parse result.
uploadOkDiscardingRows ==
    /\ inFlight["upload"] > 0
    /\ inFlight' = Answered("upload")
    /\ uploadSucceeded' = TRUE
    /\ isSubmitting' = FALSE
    /\ parseResult' = <<>>
    /\ sent' = NoRequest
    /\ UNCHANGED <<fileName, error, isRetraining, retrainMessage, parsing,
                   parsedFile, selections, invoiceVars, headersVars, shippingVars, recsVars, activeTab>>

\* The upload endpoint answered 2xx.
uploadOk ==
    /\ inFlight["upload"] > 0
    /\ inFlight' = Answered("upload")
    /\ uploadSucceeded' = TRUE
    /\ isSubmitting' = FALSE
    /\ sent' = NoRequest
    /\ UNCHANGED <<fileName, parseResult, error, isRetraining, retrainMessage, parsing,
                   parsedFile, selections, invoiceVars, headersVars, shippingVars, recsVars, activeTab>>

\* The catch of onSubmitToBackend without its finally.
uploadFailedNoFinally ==
    /\ inFlight["upload"] > 0
    /\ inFlight' = Answered("upload")
    /\ error' = <<"Upload failed">>
    /\ sent' = NoRequest
    /\ UNCHANGED <<fileName, parseResult, isSubmitting, uploadSucceeded, isRetraining,
                   retrainMessage, parsing, parsedFile, selections, invoiceVars, headersVars,
                   shippingVars, recsVars, activeTab>>

\* The upload endpoint answered non-2xx, or fetch rejected.
uploadFailed ==
    /\ inFlight["upload"] > 0
    /\ inFlight' = Answered("upload")
    /\ error' = <<"Upload failed">>
    /\ isSubmitting' = FALSE
    /\ sent' = NoRequest
    /\ UNCHANGED <<fileName, parseResult, uploadSucceeded, isRetraining, retrainMessage,
                   parsing, parsedFile, selections, invoiceVars, headersVars, shippingVars, recsVars, activeTab>>

\* Retrain Pricing Model: onRetrain up to the fetch.  The button is rendered
\* inside the parse result panel, when uploadSucceeded.
onRetrain ==
    /\ parseResult # <<>>
    /\ uploadSucceeded
    /\ ~retrainDisabled
    /\ isRetraining' = TRUE
    /\ retrainMessage' = <<>>
    /\ sent' = [kind |-> "retrain", source |-> "ui-upload", fileName |-> fileName,
                numRows |-> Len(parseResult[1].rows), schema |-> REQUIRED_HEADERS]
    /\ inFlight' = Sent("retrain")
    /\ UNCHANGED <<fileName, parseResult, error, isSubmitting, uploadSucceeded, parsing,
                   parsedFile, selections, invoiceVars, headersVars, shippingVars, recsVars, activeTab>>

\* The retrain endpoint answered 2xx.
retrainOk ==
    /\ inFlight["retrain"] > 0
    /\ inFlight' = Answered("retrain")
    /\ retrainMessage' = <<"Retraining started. This may take several minutes.">>
    /\ isRetraining' = FALSE
    /\ sent' = NoRequest
    /\ UNCHANGED <<fileName, parseResult, error, isSubmitting, uploadSucceeded, parsing,
                   parsedFile, selections, invoiceVars, headersVars, shippingVars, recsVars, activeTab>>

\* The retrain endpoint answered non-2xx, or fetch rejected.
retrainFailed ==
    /\ inFlight["retrain"] > 0
    /\ inFlight' = Answered("retrain")
    /\ error' = <<"Retrain failed">>
    /\ isRetraining' = FALSE
    /\ sent' = NoRequest
    /\ UNCHANGED <<fileName, parseResult, retrainMessage, isSubmitting, uploadSucceeded,
                   parsing, parsedFile, selections, invoiceVars, headersVars, shippingVars, recsVars, activeTab>>

\* The mounted DataImport component.
ImportMounted ==
    /\ fileName = <<>>
    /\ parseResult = <<>>
    /\ error = <<>>
    /\ isSubmitting = FALSE
    /\ uploadSucceeded = FALSE
    /\ isRetraining = FALSE
    /\ retrainMessage = <<>>
    /\ parsing = {}
    /\ parsedFile = <<>>
    /\ selections = 0
    /\ sent = NoRequest

(***************************************************************************)
(* Shipping estimator (server-backed).                                     *)
(***************************************************************************)
Null == [t |-> "null", n |-> 0, s |-> <<>>]

shipDefaultValues ==
    [originZipCode |-> "10001",
     destinationZipCode |-> "90210",
     totalWeightKg |-> Num(2),
     numBoxes |-> Num(1),
     serviceLevel |-> "ground"]

ServiceLevels == {"ground", "express", "priority"}
ZipInputs == {"", "94105"}
WeightInputs == {<<>>, <<"-", "1">>, <<"5">>}
BoxInputs == {<<>>, <<"0">>, <<"3">>}

\* register(name, {valueAsNumber: true}): the empty field gives NaN, any
\* other content its numeric value.
valueAsNumber(s) == IF s = <<>> THEN NaN ELSE ToNumber(Str(s))

\* JSON.stringify of a number: NaN is written as null.
jsonNumber(v) == IF v.t = "NaN" THEN Null ELSE v

\* ShippingEstimate bodies the estimation endpoint may answer with.
ShippingEstimates ==
    { [estimated_cost |-> 13, provider |-> "model",
       breakdown |-> [base_shipping |-> 9, fuel_surcharge |-> 1, handling_fee |-> 3]],
      [estimated_cost |-> 30, provider |-> "fallback",
       breakdown |-> [base_shipping |-> 25, fuel_surcharge |-> 3, handling_fee |-> 2]] }

\* The body fetchShippingEstimate posts.
shippingRequestBody(data) ==
    [origin_zip |-> data.originZipCode,
     destination_zip |-> data.destinationZipCode,
     weight_kg |-> jsonNumber(data.totalWeightKg),
     num_boxes |-> jsonNumber(data.numBoxes),
     service_level |-> data.serviceLevel]

\* disabled={isLoading} on the submit button.
shippingDisabled == isLoading

\* What the Estimate panel renders.
estimatePanel ==
    IF isLoading THEN [shows |-> "calculating"]
    ELSE IF estimate # <<>> THEN [shows |-> "estimate", estimate |-> estimate[1]]
    ELSE [shows |-> "placeholder"]

ShipEdit(newValues) ==
    /\ newValues # shipValues
    /\ shipValues' = newValues
    /\ out' = NoOut
    /\ UNCHANGED <<estimate, isLoading, formValues, totals, pricingPending, pricingResults,
                   edits, recomputed, headersVars, importVars, recsVars, activeTab, inFlight>>

TypeOriginZipCode == \E z \in ZipInputs : ShipEdit([shipValues EXCEPT !.originZipCode = z])

TypeDestinationZipCode ==
    \E z \in ZipInputs : ShipEdit([shipValues EXCEPT !.destinationZipCode = z])

TypeTotalWeightKg ==
    \E w \in WeightInputs : ShipEdit([shipValues EXCEPT !.totalWeightKg = valueAsNumber(w)])

TypeNumBoxes ==
    \E b \in BoxInputs : ShipEdit([shipValues EXCEPT !.numBoxes = valueAsNumber(b)])

SelectServiceLevel ==
    \E l \in ServiceLevels : ShipEdit([shipValues EXCEPT !.serviceLevel = l])

\* Get Shipping Estimate: handleSubmit(onSubmit) (no rule is registered, so
\* the values are passed as they are), then the mutation's fetch.
onSubmit ==
    /\ ~shippingDisabled
    /\ isLoading' = TRUE
    /\ inFlight' = Sent("shipping")
    /\ out' = [kind |-> "shippingRequest", body |-> shippingRequestBody(shipValues)]
    /\ UNCHANGED <<shipValues, estimate, formValues, totals, pricingPending, pricingResults,
                   edits, recomputed, headersVars, importVars, recsVars, activeTab>>

\* The endpoint answered 2xx: onSuccess.
shippingSuccess ==
    /\ inFlight["shipping"] > 0
    /\ inFlight' = Answered("shipping")
    /\ \E r \in ShippingEstimates : estimate' = <<r>>
    /\ isLoading' = FALSE
    /\ out' = NoOut
    /\ UNCHANGED <<shipValues, formValues, totals, pricingPending, pricingResults,
                   edits, recomputed, headersVars, importVars, recsVars, activeTab>>

\* onError that only logs, leaving isLoading as it is.
shippingErrorStalled ==
    /\ inFlight["shipping"] > 0
    /\ inFlight' = Answered("shipping")
    /\ out' = [kind |-> "log", message |-> "Shipping estimation error"]
    /\ UNCHANGED <<shipValues, estimate, isLoading, formValues, totals, pricingPending,
                   pricingResults, edits, recomputed, headersVars, importVars, recsVars,
                   activeTab>>

\* The endpoint answered non-2xx, or fetch rejected: onError.
shippingError ==
    /\ inFlight["shipping"] > 0
    /\ inFlight' = Answered("shipping")
    /\ isLoading' = FALSE
    /\ out' = [kind |-> "log", message |-> "Shipping estimation error"]
    /\ UNCHANGED <<shipValues, estimate, formValues, totals, pricingPending, pricingResults,
                   edits, recomputed, headersVars, importVars, recsVars, activeTab>>

\* The mounted ShippingEstimator component.
ShippingMounted ==
    /\ shipValues = shipDefaultValues
    /\ estimate = <<>>
    /\ isLoading = FALSE

(***************************************************************************)
(* Price recommendations: the recommendations query, the per-row           *)
(* competitor offers and the Add Product form.                             *)
(***************************************************************************)
\* Number of Show/Hide clicks explored in one view.
MaxToggles == 4

Skus == {"AB-HEPES-1KG", "TF-PIPET-200"}

\* Bodies GET /api/pricing/recommendations may answer with.
RecommendationLists ==
    { <<>>,
      << [sku |-> "AB-HEPES-1KG", currentPrice |-> 185, recommendedPrice |-> 199],
         [sku |-> "TF-PIPET-200", currentPrice |-> 29, recommendedPrice |-> 27] >> }

\* CompetitorResponse bodies GET /api/pricing/competitors may answer with.
CompetitorResponses ==
    { [offers |-> <<>>, message |-> "No results"],
      [offers |-> << [source |-> "vendor", title |-> "HEPES 1kg", price |-> 180] >>,
       message |-> ""] }

\* What the user can type into the SKU and Current Price fields.
NewSkuInputs == {<<>>, <<" ">>, <<" ", "TF-TIPS-10", " ">>}
NewCurrentInputs == {<<>>, <<"a", "b">>, <<"2", "9", "x">>}

\* The length of the longest prefix of s made of digits.
RECURSIVE digitPrefix(_)
digitPrefix(s) == IF s # <<>> /\ IsDigit(Head(s)) THEN 1 + digitPrefix(Tail(s)) ELSE 0

\* A conversion that gives 0 where parseFloat gives NaN.
parseFloatOrZero(text) ==
    LET t == trimStart(text)
        negative == t # <<>> /\ Head(t) = "-"
        rest == IF t # <<>> /\ Head(t) \in {"-", "+"} THEN Tail(t) ELSE t
        k == digitPrefix(rest)
    IN  IF k = 0 THEN Num(0)
        ELSE IF negative THEN Num(0 - StrToNat(SubSeq(rest, 1, k)))
        ELSE Num(StrToNat(SubSeq(rest, 1, k)))

\* parseFloat(text): blanks are skipped, then an optional sign and the longest
\* run of digits are read; NaN when there is no digit to read.
parseFloat(text) ==
    LET t == trimStart(text)
        negative == t # <<>> /\ Head(t) = "-"
        rest == IF t # <<>> /\ Head(t) \in {"-", "+"} THEN Tail(t) ELSE t
        k == digitPrefix(rest)
    IN  IF k = 0 THEN NaN
        ELSE IF negative THEN Num(0 - StrToNat(SubSeq(rest, 1, k)))
        ELSE Num(StrToNat(SubSeq(rest, 1, k)))

\* QueryClient default for queries: the number of times a failed query is
\* fetched again (none).
queryRetry == 0

\* The skus of the rows the table renders.
renderedSkus ==
    IF recommendationsLoading THEN {}
    ELSE { recommendations[i].sku : i \in 1..Len(recommendations) }

\* disabled={adding} on the Add Product button.
addDisabled == adding

\* The fetch made whatever the cache holds.
notCachedIgnored(cache, sku) == TRUE

\* !offersCache[sku]
notCached(cache, sku) == sku \notin DOMAIN cache

\* prev => ({ ...prev, [sku]: result })
putOffers(prev, sku, result) ==
    [k \in DOMAIN prev \cup {sku} |-> IF k = sku THEN result ELSE prev[k]]

NoCompetitorRequests == [sku \in Skus |-> 0]
EmptyCache == [k \in {} |-> 0]

\* What the expanded row of a sku renders: the loading line when the marker is
\* this sku, and, when there is no marker at all, either the no-offers
\* message or the list of the cached offers.
expandedPanel(sku) ==
    [loading |-> loadingOffers = <<sku>>,
     content |->
        IF loadingOffers # <<>> THEN "none"
        ELSE IF notCached(offersCache, sku) \/ Len(offersCache[sku].offers) = 0 THEN "noOffers"
        ELSE "offers",
     offers |->
        IF loadingOffers = <<>> /\ ~notCached(offersCache, sku)
        THEN offersCache[sku].offers ELSE <<>>]

\* The recommendations query answered 2xx.
recommendationsLoaded ==
    /\ inFlight["recommendations"] > 0
    /\ inFlight' = Answered("recommendations")
    /\ recommendations' \in RecommendationLists
    /\ recommendationsLoading' = FALSE
    /\ out' = NoOut
    /\ UNCHANGED <<expandedSku, offersCache, loadingOffers, competitorRequests, newSku,
                   newCurrent, adding, addError, toggles, formValues, totals, pricingPending,
                   pricingResults, edits, recomputed, headersVars, importVars, shippingVars,
                   activeTab>>

\* The recommendations query failed: data stays at its default, [].
recommendationsFailed ==
    /\ inFlight["recommendations"] > 0
    /\ inFlight' = IF queryRetry > 0 THEN inFlight ELSE Answered("recommendations")
    /\ recommendationsLoading' = (queryRetry > 0)
    /\ out' = NoOut
    /\ UNCHANGED <<recommendations, expandedSku, offersCache, loadingOffers,
                   competitorRequests, newSku, newCurrent, adding, addError, toggles,
                   formValues, totals, pricingPending, pricingResults, edits, recomputed,
                   headersVars, importVars, shippingVars, activeTab>>

\* Show / Hide on the row of a sku.
onToggleOffers ==
    /\ toggles < MaxToggles
    /\ toggles' = toggles + 1
    /\ \E sku \in renderedSkus :
        IF expandedSku = <<sku>>
        THEN /\ expandedSku' = <<>>
             /\ out' = NoOut
             /\ UNCHANGED <<loadingOffers, competitorRequests>>
        ELSE /\ expandedSku' = <<sku>>
             /\ IF notCached(offersCache, sku)
                THEN /\ loadingOffers' = <<sku>>
                     /\ competitorRequests' = [competitorRequests EXCEPT ![sku] = @ + 1]
                     /\ out' = [kind |-> "competitorRequest", query |-> sku]
                ELSE /\ out' = NoOut
                     /\ UNCHANGED <<loadingOffers, competitorRequests>>
    /\ UNCHANGED <<recommendationsLoading, recommendations, offersCache, newSku, newCurrent,
                   adding, addError, formValues, totals, pricingPending, pricingResults,
                   edits, recomputed, headersVars, importVars, shippingVars, activeTab,
                   inFlight>>

\* A competitor request answered 2xx: the result is stored, then finally.
competitorsLoaded ==
    /\ \E sku \in Skus, result \in CompetitorResponses :
        /\ competitorRequests[sku] > 0
        /\ competitorRequests' = [competitorRequests EXCEPT ![sku] = @ - 1]
        /\ offersCache' = putOffers(offersCache, sku, result)
    /\ loadingOffers' = <<>>
    /\ out' = NoOut
    /\ UNCHANGED <<recommendationsLoading, recommendations, expandedSku, newSku, newCurrent,
                   adding, addError, toggles, formValues, totals, pricingPending,
                   pricingResults, edits, recomputed, headersVars, importVars, shippingVars,
                   activeTab, inFlight>>

\* A competitor request answered non-2xx, or fetch rejected: finally only;
\* nothing catches the error, which ends as an unhandled rejection.
competitorsFailed ==
    /\ \E sku \in Skus :
        /\ competitorRequests[sku] > 0
        /\ competitorRequests' = [competitorRequests EXCEPT ![sku] = @ - 1]
        /\ out' = [kind |-> "unhandledRejection", query |-> sku]
    /\ loadingOffers' = <<>>
    /\ UNCHANGED <<recommendationsLoading, recommendations, expandedSku, offersCache, newSku,
                   newCurrent, adding, addError, toggles, formValues, totals, pricingPending,
                   pricingResults, edits, recomputed, headersVars, importVars, shippingVars,
                   activeTab, inFlight>>

TypeNewSku ==
    /\ ~recommendationsLoading
    /\ \E text \in NewSkuInputs : text # newSku /\ newSku' = text
    /\ out' = NoOut
    /\ UNCHANGED <<recommendationsLoading, recommendations, expandedSku, offersCache,
                   loadingOffers, competitorRequests, newCurrent, adding, addError, toggles,
                   formValues, totals, pricingPending, pricingResults, edits, recomputed,
                   headersVars, importVars, shippingVars, activeTab, inFlight>>

TypeNewCurrent ==
    /\ ~recommendationsLoading
    /\ \E text \in NewCurrentInputs : text # newCurrent /\ newCurrent' = text
    /\ out' = NoOut
    /\ UNCHANGED <<recommendationsLoading, recommendations, expandedSku, offersCache,
                   loadingOffers, competitorRequests, newSku, adding, addError, toggles,
                   formValues, totals, pricingPending, pricingResults, edits, recomputed,
                   headersVars, importVars, shippingVars, activeTab, inFlight>>

\* Add Product: onAddProduct up to the fetch.
onAddProduct ==
    /\ ~recommendationsLoading
    /\ ~addDisabled
    /\ LET sku == trim(newSku)
           current == parseFloat(newCurrent)
       IN  IF sku = <<>> \/ current.t = "NaN"
           THEN /\ addError' = <<"Enter SKU and a valid current price">>
                /\ out' = NoOut
                /\ UNCHANGED <<adding, inFlight>>
           ELSE /\ addError' = <<>>
                /\ adding' = TRUE
                /\ inFlight' = Sent("add")
                /\ out' = [kind |-> "addRequest",
                           body |-> [sku |-> sku, currentPrice |-> current]]
    /\ UNCHANGED <<recommendationsLoading, recommendations, expandedSku, offersCache,
                   loadingOffers, competitorRequests, newSku, newCurrent, toggles, formValues,
                   totals, pricingPending, pricingResults, edits, recomputed, headersVars,
                   importVars, shippingVars, activeTab>>

\* The add endpoint answered non-2xx, or fetch rejected: catch, then finally.
addFailed ==
    /\ inFlight["add"] > 0
    /\ inFlight' = Answered("add")
    /\ addError' = <<"Add failed">>
    /\ adding' = FALSE
    /\ out' = NoOut
    /\ UNCHANGED <<recommendationsLoading, recommendations, expandedSku, offersCache,
                   loadingOffers, competitorRequests, newSku, newCurrent, toggles, formValues,
                   totals, pricingPending, pricingResults, edits, recomputed, headersVars,
                   importVars, shippingVars, activeTab>>

\* The PricingRecommendations component before its query has answered.
RecsFresh ==
    /\ recommendations = <<>>
    /\ expandedSku = <<>>
    /\ offersCache = EmptyCache
    /\ loadingOffers = <<>>
    /\ competitorRequests = NoCompetitorRequests
    /\ newSku = <<>>
    /\ newCurrent = <<>>
    /\ adding = FALSE
    /\ addError = <<>>
    /\ toggles = 0

(***************************************************************************)
(* validateHeaders as a function of the header row.                        *)
(***************************************************************************)
MaxExtra == 2

DropCandidates == {"order_id", "price", "quantity"}
PadCandidates == {"price", "month"}
ExtraCells == { <<"notes">>, <<" ">>, <<" ", "notes">>, <<"price">> }

SeqsUpTo(S, n) == UNION { [1..k -> S] : k \in 0..n }

HeaderRows ==
    { Layout(drop, pad, more, rev) :
        drop \in SUBSET DropCandidates, pad \in SUBSET PadCandidates,
        more \in SeqsUpTo(ExtraCells, MaxExtra), rev \in BOOLEAN }

HeadersIdle ==
    /\ headers = <<>>
    /\ validation = <<>>

TabKeys == {"invoice", "shipping", "pricing", "import"}

\* The requests a freshly shown tab has sent: the recommendations query
\* fetches when PricingRecommendations mounts.
mountRequests(tab) ==
    [NoneInFlight EXCEPT !["recommendations"] = IF tab = "pricing" THEN 1 ELSE 0]

\* The application showing a tab whose component has just mounted: default
\* values, totals computed on the first render.
Mounted(tab) ==
    /\ activeTab = tab
    /\ inFlight = mountRequests(tab)
    /\ formValues = defaultValues
    /\ totals = computeTotals(defaultValues)
    /\ pricingPending = FALSE
    /\ pricingResults = <<>>
    /\ edits = 0
    /\ out = NoOut
    /\ recomputed = FALSE
    /\ HeadersIdle
    /\ ImportMounted
    /\ ShippingMounted
    /\ RecsFresh
    /\ recommendationsLoading = (tab = "pricing")

\* The add endpoint answered 2xx: window.location.reload().  The page is
\* loaded again: every component state is lost, the requests still on their
\* way are dropped, and the application shows its first tab.
addOk ==
    /\ inFlight["add"] > 0
    /\ out' = [kind |-> "reload"]
    /\ activeTab' = "invoice"
    /\ inFlight' = mountRequests("invoice")
    /\ formValues' = defaultValues
    /\ totals' = computeTotals(defaultValues)
    /\ pricingPending' = FALSE
    /\ pricingResults' = <<>>
    /\ edits' = 0
    /\ recomputed' = FALSE
    /\ headers' = <<>>
    /\ validation' = <<>>
    /\ fileName' = <<>>
    /\ parseResult' = <<>>
    /\ error' = <<>>
    /\ isSubmitting' = FALSE
    /\ uploadSucceeded' = FALSE
    /\ isRetraining' = FALSE
    /\ retrainMessage' = <<>>
    /\ parsing' = {}
    /\ parsedFile' = <<>>
    /\ selections' = 0
    /\ sent' = NoRequest
    /\ shipValues' = shipDefaultValues
    /\ estimate' = <<>>
    /\ isLoading' = FALSE
    /\ recommendationsLoading' = FALSE
    /\ recommendations' = <<>>
    /\ expandedSku' = <<>>
    /\ offersCache' = EmptyCache
    /\ loadingOffers' = <<>>
    /\ competitorRequests' = NoCompetitorRequests
    /\ newSku' = <<>>
    /\ newCurrent' = <<>>
    /\ adding' = FALSE
    /\ addError' = <<>>
    /\ toggles' = 0

\* The application after load: the invoice tab.
Init == Mounted("invoice")

Next ==
    \/ AppendItem
    \/ RemoveItem
    \/ TypeItemSku
    \/ TypeItemDescription
    \/ TypeItemQuantity
    \/ TypeItemUnitPrice
    \/ AppendFee
    \/ RemoveFee
    \/ SelectFeeType
    \/ TypeFeeLabel
    \/ TypeFeeAmount
    \/ TypeInvoiceNumber
    \/ TypeSupplierCountry
    \/ TypeBuyerCountry
    \/ SelectBuyerSegment
    \/ SubmitPdf
    \/ GeneratePricing
    \/ PricingSuccess
    \/ PricingError

Spec == Init /\ [][Next]_vars

(***************************************************************************)
(* The totals callback as a function of the form values: the form is in    *)
(* any state the user can edit it into, and the callback is applied to it. *)
(***************************************************************************)
MaxItems == 2
MaxFees == 3

QuantityValues == {Num(2), Str(<<>>), Str(<<"3">>)}
UnitPriceValues == {Num(185), Str(<<"5">>), Str(<<"-", "1">>)}
AmountValues == {Num(25), Num(15), Str(<<"-", "1", "0">>), Str(<<>>)}

ItemValues ==
    { [defaultValues.items[1] EXCEPT !.quantity = q, !.unitPrice = p] :
        q \in QuantityValues, p \in UnitPriceValues }
FeeValues == { [newFee EXCEPT !.label = "Promo", !.amount = a] : a \in AmountValues }

TotalsInit ==
    /\ \E its \in SeqsUpTo(ItemValues, MaxItems), fs \in SeqsUpTo(FeeValues, MaxFees) :
          formValues = [defaultValues EXCEPT !.items = its, !.fees = fs]
    /\ totals = computeTotals(defaultValues)
    /\ pricingPending = FALSE
    /\ pricingResults = <<>>
    /\ edits = 0
    /\ out = NoOut
    /\ recomputed = FALSE
    /\ HeadersIdle
    /\ ImportMounted
    /\ ShippingMounted
    /\ RecsFresh
    /\ recommendationsLoading = FALSE
    /\ activeTab = "invoice"
    /\ inFlight = NoneInFlight

Recompute ==
    /\ ~recomputed
    /\ totals' = computeTotals(formValues)
    /\ recomputed' = TRUE
    /\ UNCHANGED <<formValues, pricingPending, pricingResults, edits, out, headersVars, importVars, shippingVars, recsVars, activeTab, inFlight>>

TotalsNext == Recompute

TotalsSpec == TotalsInit /\ [][TotalsNext]_vars

HeadersInit ==
    /\ headers \in HeaderRows
    /\ validation = <<>>
    /\ formValues = defaultValues
    /\ totals = computeTotals(defaultValues)
    /\ pricingPending = FALSE
    /\ pricingResults = <<>>
    /\ edits = 0
    /\ out = NoOut
    /\ recomputed = FALSE
    /\ ImportMounted
    /\ ShippingMounted
    /\ RecsFresh
    /\ recommendationsLoading = FALSE
    /\ activeTab = "import"
    /\ inFlight = NoneInFlight

Validate ==
    /\ validation = <<>>
    /\ validation' = <<validateHeaders(headers)>>
    /\ UNCHANGED <<headers, invoiceVars, importVars, shippingVars, recsVars, activeTab, inFlight>>

HeadersNext == Validate

HeadersSpec == HeadersInit /\ [][HeadersNext]_vars

ImportInit == Mounted("import")

ImportNext ==
    \/ handleFile
    \/ parseComplete
    \/ parseError
    \/ onSubmitToBackend
    \/ uploadOk
    \/ uploadFailed
    \/ onRetrain
    \/ retrainOk
    \/ retrainFailed

ImportSpec == ImportInit /\ [][ImportNext]_vars

(***************************************************************************)
(* The shipping estimator and the price recommendations on their own, and  *)
(* the application showing any one of its tabs.                            *)
(***************************************************************************)
ShippingInit == Mounted("shipping")

ShippingNext ==
    \/ TypeOriginZipCode
    \/ TypeDestinationZipCode
    \/ TypeTotalWeightKg
    \/ TypeNumBoxes
    \/ SelectServiceLevel
    \/ onSubmit
    \/ shippingSuccess
    \/ shippingError

ShippingSpec == ShippingInit /\ [][ShippingNext]_vars

RecsInit == Mounted("pricing")

RecsNext ==
    \/ recommendationsLoaded
    \/ recommendationsFailed
    \/ onToggleOffers
    \/ competitorsLoaded
    \/ competitorsFailed
    \/ TypeNewSku
    \/ TypeNewCurrent
    \/ onAddProduct
    \/ addOk
    \/ addFailed

\* The component acts while its tab is shown: a reload shows the first tab.
RecsTabNext == activeTab = "pricing" /\ RecsNext

RecsSpec == RecsInit /\ [][RecsTabNext]_vars

\* Only the component of the active tab is rendered, so only its controls
\* and its requests' callbacks act.
AppInit == \E tab \in TabKeys : Mounted(tab)

AppNext ==
    \/ activeTab = "invoice" /\ Next
    \/ activeTab = "shipping" /\ ShippingNext
    \/ activeTab = "pricing" /\ RecsNext
    \/ activeTab = "import" /\ ImportNext

AppSpec == AppInit /\ [][AppNext]_vars

(***************************************************************************)
(* Shipping estimator (local formula).  Amounts are exact and counted in    *)
(* 1/10000 of a currency unit; rates and multipliers are counted in tenths  *)
(* and the fuel surcharge rate in hundredths.                               *)
(***************************************************************************)
localDefaultValues ==
    [origin |-> "US",
     destination |-> "US",
     totalWeightKg |-> Num(2),
     numBoxes |-> Num(1),
     serviceLevel |-> "ground"]

Countries == {"US", "CA", "EU", "CN", "FR", "JP"}
LocalWeightInputs == {<<>>, <<"-", "1">>, <<"5">>, <<"a", "b", "c">>}
LocalBoxInputs == {<<>>, <<"0">>, <<"-", "2">>, <<"3">>, <<"a", "b", "c">>}

\* Base rate per kg of each service level: 4.5, 7.5, 11.5.
baseRate == [ground |-> 45, express |-> 75, priority |-> 115]

\* The zone table, keyed by "{origin}->{destination}".
zoneTable ==
    { [key |-> <<"US", "US">>, multiplier |-> 10],
      [key |-> <<"US", "CA">>, multiplier |-> 12],
      [key |-> <<"US", "EU">>, multiplier |-> 16],
      [key |-> <<"US", "CN">>, multiplier |-> 18],
      [key |-> <<"EU", "EU">>, multiplier |-> 10],
      [key |-> <<"EU", "US">>, multiplier |-> 15] }

\* The lookup with 1 for every pair the table does not list.
zoneMultiplierListedOnly(origin, destination) ==
    IF \E z \in zoneTable : z.key = <<origin, destination>>
    THEN (CHOOSE z \in zoneTable : z.key = <<origin, destination>>).multiplier
    ELSE 10

\* The lookup, 1.7 for every pair the table does not list.
zoneMultiplier(origin, destination) ==
    IF \E z \in zoneTable : z.key = <<origin, destination>>
    THEN (CHOOSE z \in zoneTable : z.key = <<origin, destination>>).multiplier
    ELSE 17

\* A field value as a number no smaller than the floor: the floor itself when
\* the value is not a number or lies below it.
floorAt(floor, v) ==
    LET x == ToNumber(v)
    IN  IF x.t = "NaN" \/ x.n < floor THEN floor ELSE x.n

\* The estimate shown for the field values.
localEstimate(values) ==
    LET weight == floorAt(0, values.totalWeightKg)
        boxes == floorAt(1, values.numBoxes)
        shipping ==
            weight * baseRate[values.serviceLevel]
                   * zoneMultiplier(values.origin, values.destination) * 100
              + boxes * 25000
        fuelSurcharge == (shipping * 12) \div 100
    IN  [shipping |-> shipping,
         fuelSurcharge |-> fuelSurcharge,
         total |-> shipping + fuelSurcharge]

\* A field changes: the estimate is recomputed from the new values.
localChange ==
    \E newValues \in
          { [shipValues EXCEPT !.origin = c] : c \in Countries }
          \cup { [shipValues EXCEPT !.destination = c] : c \in Countries }
          \cup { [shipValues EXCEPT !.totalWeightKg = Str(w)] : w \in LocalWeightInputs }
          \cup { [shipValues EXCEPT !.numBoxes = Str(b)] : b \in LocalBoxInputs }
          \cup { [shipValues EXCEPT !.serviceLevel = l] : l \in ServiceLevels } :
       /\ newValues # shipValues
       /\ shipValues' = newValues
       /\ estimate' = <<localEstimate(newValues)>>
       /\ out' = NoOut
       /\ UNCHANGED <<isLoading, formValues, totals, pricingPending, pricingResults, edits,
                      recomputed, headersVars, importVars, recsVars, activeTab, inFlight>>

LocalInit ==
    /\ activeTab = "shipping"
    /\ inFlight = NoneInFlight
    /\ formValues = defaultValues
    /\ totals = computeTotals(defaultValues)
    /\ pricingPending = FALSE
    /\ pricingResults = <<>>
    /\ edits = 0
    /\ out = NoOut
    /\ recomputed = FALSE
    /\ HeadersIdle
    /\ ImportMounted
    /\ RecsFresh
    /\ recommendationsLoading = FALSE
    /\ shipValues = localDefaultValues
    /\ estimate = <<localEstimate(localDefaultValues)>>
    /\ isLoading = FALSE

LocalNext == localChange

LocalSpec == LocalInit /\ [][LocalNext]_vars

(***************************************************************************)
(* The memoised computations applied again to unchanged inputs: the totals  *)
(* callback of the invoice form and the local shipping estimate.            *)
(***************************************************************************)
\* A callback that keeps adding to the totals it produced before.
RecomputeAgainAccumulating ==
    /\ recomputed
    /\ totals' = [itemsSubtotal |-> reduceItems(totals.itemsSubtotal, formValues.items),
                  feesTotal |-> reduceFees(totals.feesTotal, formValues.fees),
                  grandTotal |-> JsAdd(reduceItems(totals.itemsSubtotal, formValues.items),
                                       reduceFees(totals.feesTotal, formValues.fees))]
    /\ out' = [kind |-> "summary", totals |-> totals']
    /\ UNCHANGED <<formValues, pricingPending, pricingResults, edits, recomputed, headersVars,
                   importVars, shippingVars, recsVars, activeTab, inFlight>>

\* The totals callback runs once more on the same form values and the
\* Summary is rendered from what it returns.
RecomputeAgain ==
    /\ recomputed
    /\ totals' = computeTotals(formValues)
    /\ out' = [kind |-> "summary", totals |-> totals']
    /\ UNCHANGED <<formValues, pricingPending, pricingResults, edits, recomputed, headersVars,
                   importVars, shippingVars, recsVars, activeTab, inFlight>>

\* The local estimate is computed once more from the same field values.
localRecompute ==
    /\ estimate' = <<localEstimate(shipValues)>>
    /\ out' = [kind |-> "estimate", estimate |-> estimate'[1]]
    /\ UNCHANGED <<shipValues, isLoading, formValues, totals, pricingPending, pricingResults,
                   edits, recomputed, headersVars, importVars, recsVars, activeTab, inFlight>>

RecomputeInit == TotalsInit \/ LocalInit

RecomputeNext ==
    \/ activeTab = "invoice" /\ Recompute
    \/ activeTab = "invoice" /\ RecomputeAgain
    \/ activeTab = "shipping" /\ localChange
    \/ activeTab = "shipping" /\ localRecompute

RecomputeSpec == RecomputeInit /\ [][RecomputeNext]_vars

(***************************************************************************)
(* Properties.                                                             *)
(***************************************************************************)
\* The number a field value stands for.
NumberOf(v) == ToNumber(v).n
IsNumeric(v) == ToNumber(v).t = "number"

RECURSIVE SumOfProducts(_)
SumOfProducts(its) ==
    IF its = <<>> THEN 0
    ELSE NumberOf(its[Len(its)].quantity) * NumberOf(its[Len(its)].unitPrice)
         + SumOfProducts(SubSeq(its, 1, Len(its) - 1))

RECURSIVE SumOfAmounts(_)
SumOfAmounts(fs) ==
    IF fs = <<>> THEN 0
    ELSE NumberOf(fs[Len(fs)].amount) + SumOfAmounts(SubSeq(fs, 1, Len(fs) - 1))

\* C1: in every reachable state the Summary shows the totals of the current
\* form values (items subtotal, fees, total).
C1_SummaryShowsCurrentTotals ==
    /\ formatCurrency(totals.itemsSubtotal) = Num(SumOfProducts(formValues.items))
    /\ formatCurrency(totals.feesTotal) = Num(SumOfAmounts(formValues.fees))
    /\ formatCurrency(totals.grandTotal) =
          Num(SumOfProducts(formValues.items) + SumOfAmounts(formValues.fees))

\* C2: for line items whose quantities and unit prices are non-negative
\* numbers, itemsSubtotal is the sum of quantity * unitPrice, 0 for no item
\* and 370 for the single item (2, 185).
NonNegativeItems(its) ==
    \A i \in 1..Len(its) :
        /\ IsNumeric(its[i].quantity) /\ NumberOf(its[i].quantity) >= 0
        /\ IsNumeric(its[i].unitPrice) /\ NumberOf(its[i].unitPrice) >= 0

C2_ItemsSubtotalIsSum ==
    (recomputed /\ NonNegativeItems(formValues.items)) =>
        /\ totals.itemsSubtotal = Num(SumOfProducts(formValues.items))
        /\ formValues.items = <<>> => totals.itemsSubtotal = Num(0)
        /\ formValues.items = defaultValues.items => totals.itemsSubtotal = Num(370)

C2_Witness ==
    /\ recomputed
    /\ Len(formValues.items) = 2
    /\ NonNegativeItems(formValues.items)
    /\ formValues.items[1].quantity = Str(<<"3">>)
    /\ formValues.items[2].unitPrice = Str(<<"5">>)
    /\ totals.itemsSubtotal.n > 0

\* C3: for every list of fees, typed and negative amounts included, feesTotal
\* is the signed sum of the amounts and grandTotal is itemsSubtotal + feesTotal.
C3_FeesTotalIsSignedSum ==
    recomputed =>
        /\ totals.feesTotal = Num(SumOfAmounts(formValues.fees))
        /\ totals.grandTotal =
              Num(SumOfProducts(formValues.items) + SumOfAmounts(formValues.fees))

\* C4: whatever the number fields hold, an empty field counts as 0 and the
\* computed totals are numbers.
C4_TotalsAreNumbers ==
    recomputed =>
        /\ totals.itemsSubtotal.t = "number"
        /\ totals.feesTotal.t = "number"
        /\ totals.grandTotal.t = "number"

\* C5: a PDF document is produced only from an invoice with at least one line
\* item; a submit with no line item produces no document.
C5_PdfOnlyWithItems ==
    /\ out.kind = "pdf" => (Len(formValues.items) >= 1 /\ Len(out.items) = Len(formValues.items))
    /\ (out.kind \in {"pdf", "invalid"} /\ formValues.items = <<>>) => out.kind = "invalid"

C5_Witness ==
    /\ out.kind = "invalid"
    /\ formValues.items = <<>>
    /\ formSchema([formValues EXCEPT !.items = defaultValues.items])

\* C6: every invoice consumed by a generate action (PDF export or pricing
\* request) has only line items with quantity >= 1 and unit price >= 0.
C6_ConsumedItemsWithinBounds ==
    /\ out.kind = "pdf" =>
          \A i \in 1..Len(out.items) :
              /\ NumberOf(Str(out.items[i].quantity)) >= 1
              /\ out.items[i].unitPrice.n >= 0
    /\ out.kind = "pricingRequest" =>
          \A i \in 1..Len(out.body.items) :
              /\ IsNumeric(out.body.items[i].quantity)
              /\ NumberOf(out.body.items[i].quantity) >= 1
              /\ IsNumeric(out.body.items[i].unitPrice)
              /\ NumberOf(out.body.items[i].unitPrice) >= 0

RECURSIVE SumField(_, _)
SumField(rows, f) ==
    IF rows = <<>> THEN 0
    ELSE rows[Len(rows)][f].n + SumField(SubSeq(rows, 1, Len(rows) - 1), f)

\* C7: the Subtotal, Fees and Total stamped on an exported document are the
\* sums of the line totals and fee amounts listed in that document.
C7_StampedTotalsMatchTables ==
    out.kind = "pdf" =>
        /\ out.subtotal = Num(SumField(out.items, "lineTotal"))
        /\ out.feesTotal = Num(SumField(out.fees, "amount"))
        /\ out.total = Num(SumField(out.items, "lineTotal") + SumField(out.fees, "amount"))

\* A header cell names h when it is h with blanks before and after it.
Blanks(n) == [i \in 1..n |-> " "]
Names(cell, h) ==
    \E a \in 0..(Len(cell) - Len(h)) : cell = Blanks(a) \o h \o Blanks(Len(cell) - Len(h) - a)
Present(hs, h) == \E i \in 1..Len(hs) : Names(hs[i], h)
IsRequired(h) == \E k \in DOMAIN REQUIRED_HEADERS : REQUIRED_HEADERS[k] = h
RequiredIndex(h) == CHOOSE k \in DOMAIN REQUIRED_HEADERS : REQUIRED_HEADERS[k] = h
AllPresent(hs) == \A k \in DOMAIN REQUIRED_HEADERS : Present(hs, REQUIRED_HEADERS[k])

\* The cell without the blanks around it.
Core(cell) ==
    CHOOSE c \in { SubSeq(cell, i, j) : i \in 1..(Len(cell) + 1), j \in 0..Len(cell) } :
        /\ c = <<>> \/ (c[1] # " " /\ c[Len(c)] # " ")
        /\ Names(cell, c)

\* The positions of a header row whose cell names no required header.
Unexpected(hs) == { i \in 1..Len(hs) : ~IsRequired(Core(hs[i])) }
Nth(S, j) == CHOOSE x \in S : Cardinality({ y \in S : y < x }) = j - 1

\* C8: validateHeaders returns as missing exactly the required headers that no
\* cell names, in required order, and as extra exactly the cells (blanks
\* removed) that name no required header, in file order; a required header is
\* present or missing, and never extra.
C8_ValidateHeadersPartitions ==
    validation # <<>> =>
        LET v == validation[1]
        IN  /\ \A k \in DOMAIN REQUIRED_HEADERS :
                  includes(v.missing, REQUIRED_HEADERS[k]) <=> ~Present(headers, REQUIRED_HEADERS[k])
            /\ \A i \in 1..Len(v.missing) : IsRequired(v.missing[i])
            /\ \A i \in 1..Len(v.missing), j \in 1..Len(v.missing) :
                  i < j => RequiredIndex(v.missing[i]) < RequiredIndex(v.missing[j])
            /\ Len(v.extra) = Cardinality(Unexpected(headers))
            /\ \A j \in 1..Len(v.extra) :
                  /\ v.extra[j] = Core(headers[Nth(Unexpected(headers), j)])
                  /\ ~IsRequired(v.extra[j])

C8_Witness ==
    /\ validation # <<>>
    /\ Len(validation[1].missing) = 2
    /\ Len(validation[1].extra) = 2
    /\ \E i \in 1..Len(headers) : headers[i] # Core(headers[i]) /\ IsRequired(Core(headers[i]))
    /\ \E i \in 1..Len(headers) : headers[i] # Core(headers[i]) /\ ~IsRequired(Core(headers[i]))

\* C9: a parsed file that lacks a required header gives a parse result with no
\* row and with the missing headers listed (only quantity missing gives
\* ['quantity']); a file that lacks none keeps its rows, extra headers or not.
C9_MissingHeaderRejectsRows ==
    parseResult # <<>> =>
        LET file == parsedFile[1]
            r == parseResult[1]
        IN  /\ ~AllPresent(fileHeaders(file)) =>
                  /\ r.rows = <<>>
                  /\ Len(r.missingHeaders) > 0
                  /\ \A k \in DOMAIN REQUIRED_HEADERS :
                        includes(r.missingHeaders, REQUIRED_HEADERS[k])
                            <=> ~Present(fileHeaders(file), REQUIRED_HEADERS[k])
            /\ file = "noQuantity" => r.missingHeaders = << <<"quantity">> >>
            /\ AllPresent(fileHeaders(file)) => Len(r.rows) = fileRows(file)

C9_Witness ==
    /\ parseResult # <<>>
    /\ parsedFile[1] = "noQuantity"
    /\ fileRows("noQuantity") > 0
    /\ parseResult[1].rows = <<>>
    /\ parseResult[1].missingHeaders = << <<"quantity">> >>

\* C10: a parsed file with all required headers gives a parse result with no
\* missing header and one row per data row, in order; each row has exactly
\* the required keys, with string values: the cell of that data row under
\* the column headed exactly by that key, the empty string when the data row
\* has no such cell; columns other than the required ones appear in no row.
C10_RowsNormalised ==
    (parseResult # <<>> /\ AllPresent(fileHeaders(parsedFile[1]))) =>
        LET file == parsedFile[1]
            r == parseResult[1]
            data == parseData(file)
        IN  /\ r.missingHeaders = <<>>
            /\ Len(r.rows) = fileRows(file)
            /\ \A i \in 1..Len(r.rows) :
                  /\ DOMAIN r.rows[i] = { REQUIRED_HEADERS[k] : k \in DOMAIN REQUIRED_HEADERS }
                  /\ \A key \in DOMAIN r.rows[i] :
                        /\ r.rows[i][key].t = "string"
                        /\ key \in DOMAIN data[i] => r.rows[i][key] = data[i][key]
                        /\ key \notin DOMAIN data[i] => r.rows[i][key] = Str(<<>>)

C10_Witness ==
    /\ parseResult # <<>>
    /\ parsedFile[1] = "reordered"
    /\ Len(parseResult[1].rows) >= 2
    /\ parseResult[1].extraHeaders = << <<"notes">> >>
    /\ parseResult[1].rows[1][<<"order_id">>] = CellText(1, Len(RequiredNames))
    /\ parseResult[1].rows[2][<<"order_id">>] = Str(<<>>)
    /\ parseResult[1].rows[2][<<"quantity">>] = CellText(2, 1)

\* C11: the preview is the first min(10, number of rows) rows of the parse
\* result, in order; it is empty when no file has been parsed and when the
\* parsed file was rejected for a missing header.
C11_PreviewIsFirstTenRows ==
    /\ parseResult = <<>> => previewRows = <<>>
    /\ parseResult # <<>> =>
          LET rows == parseResult[1].rows
              file == parsedFile[1]
          IN  /\ Len(previewRows) = (IF Len(rows) < 10 THEN Len(rows) ELSE 10)
              /\ \A i \in 1..Len(previewRows) : previewRows[i] = rows[i]
              /\ ~AllPresent(fileHeaders(file)) => previewRows = <<>>
              /\ AllPresent(fileHeaders(file)) =>
                    Len(previewRows) = (IF fileRows(file) < 10 THEN fileRows(file) ELSE 10)

C11_Witness ==
    /\ parseResult # <<>>
    /\ Len(parseResult[1].rows) > 10
    /\ Len(previewRows) = 10
    /\ previewRows[10] = parseResult[1].rows[10]

\* The operations whose control is disabled while a request is in flight.
GuardedOperations == {"shipping", "pricing", "upload", "retrain", "add"}

\* The disabled attribute of the control that triggers an operation.
ControlDisabled(op) ==
    CASE op = "shipping" -> shippingDisabled
      [] op = "pricing" -> pricingDisabled
      [] op = "upload" -> parseResult # <<>> /\ uploadDisabled
      [] op = "retrain" -> retrainDisabled
      [] op = "add" -> addDisabled

\* C12: for shipping estimate, invoice pricing, CSV upload, retrain and add
\* product, the triggering control is disabled for as long as a request of
\* the operation is in flight, and at most one such request is in flight.
C12_OneRequestInFlight ==
    \A op \in GuardedOperations :
        /\ inFlight[op] <= 1
        /\ inFlight[op] = 1 => ControlDisabled(op)

C12_Witness ==
    /\ inFlight["upload"] = 1
    /\ ControlDisabled("upload")
    /\ Len(parseResult[1].rows) > 0
    /\ parsedFile # fileName

\* C13 as stated: after the estimation endpoint answered with a failure the
\* error is logged and the estimator stays in its loading state, the panel
\* showing the calculating message and the submit button disabled.
C13_ErrorLeavesLoading ==
    out.kind = "log" =>
        /\ isLoading
        /\ estimatePanel.shows = "calculating"
        /\ shippingDisabled

\* C13: after the estimation endpoint answered with a failure the error is
\* logged and the loading state is cleared: the submit button is enabled and
\* the panel shows the estimate held before the request, or the placeholder
\* when there is none; no error message is shown.
C13_ErrorClearsLoading ==
    out.kind = "log" =>
        /\ ~isLoading
        /\ ~shippingDisabled
        /\ inFlight["shipping"] = 0
        /\ estimate # <<>> => estimatePanel = [shows |-> "estimate", estimate |-> estimate[1]]
        /\ estimate = <<>> => estimatePanel = [shows |-> "placeholder"]

C13_Witness ==
    /\ out.kind = "log"
    /\ estimate # <<>>
    /\ estimatePanel.shows = "estimate"
    /\ ~shippingDisabled

\* The in-flight flag of an operation.
Flag(op) ==
    CASE op = "shipping" -> isLoading
      [] op = "pricing" -> pricingPending
      [] op = "upload" -> isSubmitting
      [] op = "retrain" -> isRetraining
      [] op = "add" -> adding

\* The inputs and the displayed results of the component of an operation.
View(op) ==
    CASE op = "shipping" -> <<shipValues, estimate>>
      [] op = "pricing" -> <<formValues, totals, pricingResults>>
      [] op = "upload" -> <<fileName, parseResult, uploadSucceeded, retrainMessage>>
      [] op = "retrain" -> <<fileName, parseResult, uploadSucceeded, retrainMessage>>
      [] op = "add" -> <<newSku, newCurrent, recommendations, expandedSku, offersCache>>

\* A step in which a request of the operation is answered with a failure.
FailureStep(op) ==
    /\ inFlight'[op] = inFlight[op] - 1
    /\ CASE op = "shipping" -> out'.kind = "log"
         [] op = "pricing" -> out'.kind = "alert"
         [] op = "upload" -> error' = <<"Upload failed">> /\ ~uploadSucceeded'
         [] op = "retrain" -> error' = <<"Retrain failed">> /\ retrainMessage' = <<>>
         [] op = "add" -> addError' = <<"Add failed">>

\* The control of an operation is rendered and enabled.
ControlEnabled(op) ==
    CASE op = "shipping" -> ~shippingDisabled
      [] op = "pricing" -> ~pricingDisabled
      [] op = "upload" -> parseResult # <<>> /\ ~uploadDisabled
      [] op = "retrain" -> parseResult # <<>> /\ uploadSucceeded /\ ~retrainDisabled
      [] op = "add" -> ~recommendationsLoading /\ ~addDisabled

\* What, apart from a request in flight, the control of an operation needs
\* to be enabled: rows to upload, an upload recorded as succeeded.
StillApplicable(op) ==
    CASE op = "upload" -> parseResult # <<>> /\ Len(parseResult[1].rows) > 0
      [] op = "retrain" -> parseResult # <<>> /\ uploadSucceeded
      [] OTHER -> TRUE

\* C14 as stated: a failed request of any of the five operations leaves the
\* in-flight flag cleared, the triggering control enabled, and the inputs and
\* displayed results as they were.
C14_FailureReenablesControl ==
    [][\A op \in GuardedOperations :
          FailureStep(op) =>
              /\ ~Flag(op)'
              /\ ControlEnabled(op)'
              /\ View(op)' = View(op)]_vars

\* C14: a failed request of any of the five operations leaves the in-flight
\* flag cleared and the inputs and displayed results as they were; the
\* triggering control is enabled again, unless the user has meanwhile left
\* the operation nothing to act on (upload: the parse result now held has no
\* row; retrain: no upload is recorded as succeeded any more).
C14_FailureLeavesViewActionable ==
    [][\A op \in GuardedOperations :
          FailureStep(op) =>
              /\ ~Flag(op)'
              /\ inFlight'[op] = 0
              /\ StillApplicable(op)' => ControlEnabled(op)'
              /\ View(op)' = View(op)]_vars

C14_Witness ==
    /\ error = <<"Upload failed">>
    /\ inFlight["upload"] = 0
    /\ ~isSubmitting
    /\ ControlEnabled("upload")
    /\ selections = MaxSelections

RECURSIVE SumOver(_, _)
SumOver(f, S) ==
    IF S = {} THEN 0
    ELSE LET x == CHOOSE y \in S : TRUE IN f[x] + SumOver(f, S \ {x})

\* The user action that triggers an operation.
UserTrigger(op) ==
    CASE op = "shipping" -> onSubmit
      [] op = "pricing" -> GeneratePricing
      [] op = "upload" -> onSubmitToBackend
      [] op = "retrain" -> onRetrain
      [] op = "add" -> onAddProduct
      [] op = "recommendations" -> FALSE

\* The answer of a request of an operation with a failure.
FailureAnswer(op) ==
    CASE op = "shipping" -> shippingError
      [] op = "pricing" -> PricingError
      [] op = "upload" -> uploadFailed
      [] op = "retrain" -> retrainFailed
      [] op = "add" -> addFailed
      [] op = "recommendations" -> recommendationsFailed

StaysUnanswered(op) == inFlight[op] > 0 /\ inFlight'[op] >= inFlight[op]

\* C16: as long as a request stays unanswered, no step clears the loading
\* state it put the component in: the in-flight flag stays set and the
\* triggering control disabled (shipping, pricing, upload, retrain, add), the
\* recommendations stay loading, and the loading marker of a competitor
\* lookup stays on its sku.
C16_HungRequestKeepsLoading ==
    [][/\ \A op \in GuardedOperations :
             StaysUnanswered(op) => (Flag(op)' /\ ~ControlEnabled(op)')
       /\ StaysUnanswered("recommendations") => recommendationsLoading'
       /\ \A sku \in Skus :
             (competitorRequests[sku] > 0 /\ competitorRequests'[sku] >= competitorRequests[sku])
                 => loadingOffers' = <<sku>>]_vars

\* C17: for the lifetime of the view (until the page is reloaded), an entry
\* of the offers cache is never removed and never replaced: the value cached
\* for a sku stays the first response stored for it.
C17_CacheKeepsFirstResponse ==
    [][out'.kind # "reload" =>
          \A sku \in DOMAIN offersCache :
              /\ sku \in DOMAIN offersCache'
              /\ offersCache'[sku] = offersCache[sku]]_vars

\* C18: a competitor request for a sku is sent only by the step that expands
\* the row of that sku while nothing is cached for it, and that step sends
\* one; expanding a row whose sku is cached, or collapsing a row, sends none;
\* none is sent before the first Show click.
C18_CompetitorRequestOnlyOnUncachedExpand ==
    /\ [](toggles = 0 => competitorRequests = NoCompetitorRequests)
    /\ [][\A sku \in Skus :
             /\ competitorRequests'[sku] > competitorRequests[sku] =>
                   /\ expandedSku # <<sku>>
                   /\ expandedSku' = <<sku>>
                   /\ sku \notin DOMAIN offersCache
                   /\ competitorRequests'[sku] = competitorRequests[sku] + 1
                   /\ out' = [kind |-> "competitorRequest", query |-> sku]
             /\ (expandedSku # <<sku>> /\ expandedSku' = <<sku>> /\ sku \in DOMAIN offersCache) =>
                   \A other \in Skus : competitorRequests'[other] <= competitorRequests[other]
             /\ (expandedSku = <<sku>> /\ expandedSku' = <<>>) =>
                   \A other \in Skus : competitorRequests'[other] <= competitorRequests[other]]_vars

C18_Witness ==
    /\ \E sku \in DOMAIN offersCache : expandedSku = <<sku>>
    /\ competitorRequests = NoCompetitorRequests
    /\ toggles >= 3
    /\ out = NoOut

\* A text that begins, after blanks and an optional sign, with a digit.
ParsesToNumber(text) ==
    \E i \in 1..Len(text) :
        /\ IsDigit(text[i])
        /\ \A j \in 1..(i - 1) : text[j] = " " \/ (j = i - 1 /\ text[j] \in {"-", "+"})

\* C19: an add request is sent only for a sku that is non-empty once trimmed
\* and a price text that parses to a number, and carries that sku and that
\* number; an Add Product click on anything else sets the inline error and
\* sends nothing; the page is reloaded only by the answer to an add request;
\* a failed add sets the add error and reloads nothing; the recommendation
\* list changes only when the recommendations query answers or the page is
\* reloaded.
C19_AddPostsThenReloads ==
    [][/\ inFlight'["add"] > inFlight["add"] =>
             /\ Core(newSku) # <<>>
             /\ ParsesToNumber(newCurrent)
             /\ out'.kind = "addRequest"
             /\ out'.body.sku = Core(newSku)
             /\ out'.body.currentPrice.t = "number"
             /\ out'.body.currentPrice = parseFloat(newCurrent)
             /\ addError' = <<>>
       /\ (onAddProduct /\ (Core(newSku) = <<>> \/ ~ParsesToNumber(newCurrent))) =>
             /\ addError' = <<"Enter SKU and a valid current price">>
             /\ inFlight' = inFlight
             /\ out'.kind # "addRequest"
       /\ out'.kind = "reload" => (inFlight["add"] = 1 /\ adding)
       /\ (inFlight'["add"] < inFlight["add"] /\ addError' = <<"Add failed">>) =>
             /\ out'.kind # "reload"
             /\ activeTab' = activeTab
             /\ ~adding'
       /\ recommendations' # recommendations =>
             (inFlight'["recommendations"] < inFlight["recommendations"] \/ out'.kind = "reload")]_vars

C19_Witness ==
    /\ out.kind = "addRequest"
    /\ out.body.sku # newSku
    /\ out.body.currentPrice = Num(29)
    /\ Len(newCurrent) = 3
    /\ Len(recommendations) = 2
    /\ adding

\* The preconditions of a pricing request on the current invoice.
PricingPreconditions ==
    /\ Len(formValues.items) >= 1
    /\ formValues.buyer.segment # ""
    /\ formValues.buyer.country # ""
    /\ formValues.supplier.country # ""

\* C20: a pricing request is sent only for an invoice with at least one line
\* item and non-empty buyer segment, buyer country and supplier country; its
\* items are the line items of the form, one {sku, description, quantity,
\* unitPrice} each, in order; a Generate Pricing click on an invoice that
\* fails a precondition sends nothing and leaves the pricing results as
\* they were.
C20_PricingRequestPreconditions ==
    /\ [](out.kind = "pricingRequest" =>
            /\ PricingPreconditions
            /\ Len(out.body.items) = Len(formValues.items)
            /\ \A i \in 1..Len(formValues.items) :
                  /\ DOMAIN out.body.items[i] = {"sku", "description", "quantity", "unitPrice"}
                  /\ out.body.items[i].sku = formValues.items[i].sku
                  /\ out.body.items[i].description = formValues.items[i].description
                  /\ out.body.items[i].quantity = formValues.items[i].quantity
                  /\ out.body.items[i].unitPrice = formValues.items[i].unitPrice
            /\ out.body.buyer_segment = formValues.buyer.segment
            /\ out.body.buyer_country = formValues.buyer.country
            /\ out.body.supplier_country = formValues.supplier.country)
    /\ [][/\ inFlight'["pricing"] > inFlight["pricing"] =>
                (PricingPreconditions /\ out'.kind = "pricingRequest")
          /\ (GeneratePricing /\ ~PricingPreconditions) =>
                /\ out'.kind = "alert"
                /\ inFlight' = inFlight
                /\ ~pricingPending'
                /\ pricingResults' = pricingResults]_vars

C20_Witness ==
    /\ out.kind = "alert"
    /\ out.message # "Pricing generation failed"
    /\ ~PricingPreconditions
    /\ Len(formValues.items) = 2
    /\ pricingResults # <<>>
    /\ inFlight["pricing"] = 0

\* C21: every shipping estimate request carries a number of boxes that is a
\* number and at least 1, and a weight that is a number and at least 0.
C21_RequestsAreClamped ==
    out.kind = "shippingRequest" =>
        /\ out.body.num_boxes.t = "number"
        /\ out.body.num_boxes.n >= 1
        /\ out.body.weight_kg.t = "number"
        /\ out.body.weight_kg.n >= 0

\* C22: in the local shipping variant, for a weight of at least 0 and at least
\* one box, shipping = weight x base rate x zone multiplier + boxes x 2.5, with
\* base rates 4.5 (ground), 7.5 (express), 11.5 (priority), the zone multiplier
\* of the table and 1.7 for every pair not in it; the fuel surcharge is 12% of
\* shipping and the total is their sum (2 kg, ground, US to US, 1 box: 11.5,
\* 1.38, 12.88).
C22_LocalShippingFormula ==
    LET w == ToNumber(shipValues.totalWeightKg)
        b == ToNumber(shipValues.numBoxes)
        pair == <<shipValues.origin, shipValues.destination>>
        rate == CASE shipValues.serviceLevel = "ground" -> 45
                  [] shipValues.serviceLevel = "express" -> 75
                  [] shipValues.serviceLevel = "priority" -> 115
        zone == CASE pair = <<"US", "US">> -> 10
                  [] pair = <<"US", "CA">> -> 12
                  [] pair = <<"US", "EU">> -> 16
                  [] pair = <<"US", "CN">> -> 18
                  [] pair = <<"EU", "EU">> -> 10
                  [] pair = <<"EU", "US">> -> 15
                  [] OTHER -> 17
        e == estimate[1]
    IN  (w.t = "number" /\ w.n >= 0 /\ b.t = "number" /\ b.n >= 1) =>
           /\ e.shipping = w.n * rate * zone * 100 + b.n * 25000
           /\ e.fuelSurcharge * 100 = 12 * e.shipping
           /\ e.total = e.shipping + e.fuelSurcharge
           /\ (w.n = 2 /\ b.n = 1 /\ rate = 45 /\ pair = <<"US", "US">>) =>
                 e = [shipping |-> 115000, fuelSurcharge |-> 13800, total |-> 128800]

C22_Witness ==
    /\ shipValues.origin = "FR"
    /\ shipValues.destination = "JP"
    /\ shipValues.totalWeightKg = Str(<<"5">>)
    /\ shipValues.numBoxes = Str(<<"3">>)
    /\ shipValues.serviceLevel = "priority"
    /\ estimate[1].shipping = 1052500

UploadAnswered == inFlight'["upload"] < inFlight["upload"]

\* C24 as stated: once an upload completes, the component holds no rows.
C24_RowsDiscardedAfterUpload ==
    [][UploadAnswered => (parseResult' = <<>> \/ parseResult'[1].rows = <<>>)]_vars

\* C24: the answer to an upload, success or failure, leaves the parse result
\* as it is, and the parse result changes only when the parse of a file
\* completes; the rows are held in component state and nowhere else.
C24_RowsKeptAfterUpload ==
    [][/\ UploadAnswered => (parseResult' = parseResult /\ parseResult' # <<>>)
       /\ parseResult' # parseResult =>
             (\E file \in parsing : parsing' = parsing \ {file} /\ parsedFile' = <<file>>)]_vars

C24_Witness ==
    /\ uploadSucceeded
    /\ ~isSubmitting
    /\ inFlight["upload"] = 0
    /\ parsing = {}
    /\ Len(parseResult[1].rows) > PreviewLimit

\* C25: the Retrain control is available only for rows that were uploaded
\* successfully, so a step that replaces the held rows by other rows while
\* Retrain is available leaves it unavailable.
C25_RetrainOnlyForUploadedRows ==
    [][(/\ uploadSucceeded
        /\ parseResult # <<>>
        /\ parseResult'[1].rows # parseResult[1].rows) => ~uploadSucceeded']_vars

\* C26: the displayed file name and the held parse result belong to the same
\* file; stated for the states in which no parse is still running.
C26_NameMatchesParseResult ==
    (parsing = {} /\ parseResult # <<>>) => fileName = parsedFile

\* C27: for a file whose headers are accepted, the value of every parsed row
\* under a required key is the text of the file's cell in the column whose
\* header, trimmed, is that key (for the cells the row has).
C27_RowValuesAreCellTexts ==
    (parseResult # <<>> /\ parseResult[1].missingHeaders = <<>>) =>
        LET file == parsedFile[1]
            hs == fileHeaders(file)
        IN  \A i \in 1..fileRows(file) :
              \A c \in 1..(IF i % 2 = 0 THEN Len(hs) - 2 ELSE Len(hs)) :
                 includes(REQUIRED_HEADERS, trim(hs[c])) =>
                    parseResult[1].rows[i][trim(hs[c])] = CellText(i, c)

\* C28: while a competitor request for the expanded sku is in flight, the
\* expanded row shows the loading line and not the no-offers message.
C28_LoadingShownWhileInFlight ==
    \A sku \in renderedSkus :
        (expandedSku = <<sku>> /\ competitorRequests[sku] > 0) =>
            /\ expandedPanel(sku).loading
            /\ expandedPanel(sku).content # "noOffers"

\* C29: an expanded row whose sku has a non-empty list of offers in the cache
\* displays those offers, whatever other competitor request is in flight.
C29_CachedOffersDisplayed ==
    \A sku \in renderedSkus :
        (/\ expandedSku = <<sku>>
         /\ ~notCached(offersCache, sku)
         /\ offersCache[sku].offers # <<>>) =>
            /\ expandedPanel(sku).content = "offers"
            /\ expandedPanel(sku).offers = offersCache[sku].offers

\* C30: a failed competitor request leaves the offers cache as it is and
\* clears the loading marker; the sku is then not in the cache, so its next
\* expand sends a request, and its row, when it is the expanded one, stays
\* expanded and shows the no-offers message.
C30_FailureIsNotCached ==
    /\ [][out'.kind = "unhandledRejection" =>
             /\ offersCache' = offersCache
             /\ loadingOffers' = <<>>
             /\ expandedSku' = expandedSku]_vars
    /\ [](out.kind = "unhandledRejection" =>
             /\ notCached(offersCache, out.query)
             /\ expandedSku = <<out.query>> =>
                   /\ out.query \in renderedSkus
                   /\ expandedPanel(out.query).content = "noOffers")

====
